---- MODULE Spec2Model ----
(***************************************************************************)
(* Model of the technical signal engine of backend/stock_analyzer_backend: *)
(* calculate_vstop, calculate_relative_strength, get_chart_pattern and     *)
(* the recommendation logic of get_stock_analysis.                         *)
(*                                                                         *)
(* Floats are modelled exactly on small integers.  A Python value is a     *)
(* record [k, v]: k = "num" carries the integer v, k = "nan" is the float  *)
(* NaN and k = "none" is Python's None.  Comparisons with NaN are False,   *)
(* arithmetic with NaN is NaN, as in IEEE 754 / numpy.                     *)
(***************************************************************************)
EXTENDS Integers, Sequences, FiniteSets, TLC

VARIABLES
    \* ---- calculate_vstop(df, atr_period, multiplier, lookback_period)
    vs_pc,            \* position in calculate_vstop
    input_kind,       \* "frame" | "notframe" | "nocols" (lines 27, 33)
    df,               \* the price series: sequence of [High, Close]
    df_cols,          \* columns appended to df by the call ("ATRr", "VStop")
    atr_period, multiplier, lookback_period,
    atr,              \* result of df.ta.atr: NotComputed | NoneSeries | sequence
    fHigh, fLow,      \* run counters
    vstop,            \* the stop series being filled
    i,                \* loop index (0-based, as in the code)
    high_period, low_period,   \* window extremes of the last steady bar
    vs_outcome,       \* "running" | "returned" | name of the raised exception
    vs_ret,           \* the returned value
    \* ---- calculate_relative_strength(stock_data, index_data)
    rs_pc,            \* position in calculate_relative_strength
    stock_data,       \* instrument series: sequence of [t, Close]
    index_data,       \* benchmark series: sequence of [t, Close]
    stock_normalized, index_normalized,   \* sequences of [t, x]
    rs_outcome,       \* "running" | "returned" | name of the raised exception
    rs_ret,           \* the returned ratio
    \* ---- get_chart_pattern(df)
    cp_pc,            \* position in get_chart_pattern
    daily_data,       \* the daily series passed as df: sequence of [High, Close]
    last_price, high_52_week,
    cp_outcome,       \* "running" | "returned" | name of the raised exception
    chart_pattern,    \* the returned label
    \* ---- get_stock_analysis(ticker, timeframe)
    ga_pc,            \* position in get_stock_analysis
    stock_len,        \* number of bars of the fetched stock_data
    latest_data,      \* last row of stock_data after the indicator calls
    current_price, ema50, sma50, ema200, sma200, rsi, adx, psar,
    ga_vstop,         \* the local vstop of get_stock_analysis
    ga_fault,         \* the step whose exception reached the except clause
    recommendation,
    ga_result,        \* "none" | "analysis" | "error": the returned record,
                      \* "raised" when an exception leaves the function
    ga_keys           \* the keys of the returned record

vsVars == <<vs_pc, input_kind, df, df_cols, atr_period, multiplier,
            lookback_period, atr, fHigh, fLow, vstop, i, high_period,
            low_period, vs_outcome, vs_ret>>

rsVars == <<rs_pc, stock_data, index_data, stock_normalized,
            index_normalized, rs_outcome, rs_ret>>

cpVars == <<cp_pc, daily_data, last_price, high_52_week, cp_outcome,
            chart_pattern>>

gaVars == <<ga_pc, stock_len, latest_data, current_price, ema50, sma50,
            ema200, sma200, rsi, adx, psar, ga_vstop, ga_fault,
            recommendation, ga_result, ga_keys>>

vars == <<vsVars, rsVars, cpVars, gaVars>>

-----------------------------------------------------------------------------
(* Bounds of the model *)

\* longest price series given to calculate_vstop
MaxLen == 4
\* largest atr_period / lookback_period tried
MaxPeriod == 2
\* largest lookback_period tried beyond MaxPeriod
ExtraLookback == 1

\* timestamps of the relative-strength series are drawn from 1..MaxTs
MaxTs == 3

\* short daily series of get_chart_pattern are enumerated up to this length
MaxDailyLen == 2
\* long daily series have up to YearBars + ExtraBars bars
ExtraBars == 2

\* line 90: the trailing window of df['High'][-252:]
YearBars == 252

\* line 21: the defaults get_stock_analysis calls calculate_vstop with
DefaultAtrPeriod == 14
DefaultMultiplier == 2
DefaultLookback == 1

\* lines 189, 190, 199: the thresholds of the rules
RsiBuyAbove == 55
AdxBuyAbove == 25
RsiSellBelow == 45

CloseVals == {1, 2}
HighGaps == {0, 1}
AtrVals == {0, 1}
MultiplierVals == {0, 1, 2}
RsCloseVals == {0, 1, 2}

-----------------------------------------------------------------------------
(* Python / numpy values *)

Num(x) == [k |-> "num", v |-> x]
NaN == [k |-> "nan", v |-> 0]
None == [k |-> "none", v |-> 0]

IsNum(a) == a.k = "num"

\* float comparisons: False as soon as one side is NaN
Gt(a, b) == IsNum(a) /\ IsNum(b) /\ a.v > b.v
Lt(a, b) == IsNum(a) /\ IsNum(b) /\ a.v < b.v
Ge(a, b) == IsNum(a) /\ IsNum(b) /\ a.v >= b.v
Le(a, b) == IsNum(a) /\ IsNum(b) /\ a.v <= b.v

Add(a, b) == IF IsNum(a) /\ IsNum(b) THEN Num(a.v + b.v) ELSE NaN
Sub(a, b) == IF IsNum(a) /\ IsNum(b) THEN Num(a.v - b.v) ELSE NaN
Mul(a, b) == IF IsNum(a) /\ IsNum(b) THEN Num(a.v * b.v) ELSE NaN

\* Python's builtin max(a, b) / min(a, b): the first argument unless the
\* second compares strictly greater / smaller
PyMax(a, b) == IF Gt(b, a) THEN b ELSE a
PyMin(a, b) == IF Lt(b, a) THEN b ELSE a

SetMax(S) == CHOOSE x \in S : \A y \in S : y <= x
SetMin(S) == CHOOSE x \in S : \A y \in S : x <= y

\* pandas Series.max() / .min() of a sequence of integers: NaN when empty
SeriesMax(s) == IF Len(s) = 0 THEN NaN
                ELSE Num(SetMax({s[k] : k \in 1..Len(s)}))
SeriesMin(s) == IF Len(s) = 0 THEN NaN
                ELSE Num(SetMin({s[k] : k \in 1..Len(s)}))

\* Python slice bounds on a sequence of length n: a negative bound counts
\* from the end, then the bound is clamped to 0..n
SliceBound(b, n) ==
    LET c == IF b < 0 THEN b + n ELSE b
    IN  IF c < 0 THEN 0 ELSE IF c > n THEN n ELSE c

\* s.iloc[start:stop] with 0-based positions, as a sequence
ILocSlice(s, start, stop) ==
    LET lo == SliceBound(start, Len(s))
        hi == SliceBound(stop, Len(s))
    IN  IF hi <= lo THEN <<>> ELSE [k \in 1..(hi - lo) |-> s[lo + k]]

-----------------------------------------------------------------------------
(* calculate_vstop *)

\* the value of the local atr: not yet assigned, None, or a series
NotComputed == [kind |-> "notcomputed", s |-> <<>>]
NoneSeries == [kind |-> "none", s |-> <<>>]
AtrSeries(q) == [kind |-> "series", s |-> q]

CloseCol(d) == [k \in 1..Len(d) |-> d[k].Close]

Bars == {[High |-> c + g, Close |-> c] : c \in CloseVals, g \in HighGaps}

SeriesOfLen(n) == [1..n -> Bars]

\* Outcomes of df.ta.atr(length = p) on n bars: a series aligned with df
\* whose first p entries are NaN (Wilder's average needs p true ranges, and
\* the first bar has none) and whose later entries are non-negative numbers.
\* On a series shorter than the length the library gives None, or, in
\* releases without that length check, the all-NaN series.
AtrResults(n, p) ==
    IF n < p THEN {NoneSeries, AtrSeries([k \in 1..n |-> NaN])}
    ELSE {AtrSeries([k \in 1..n |-> IF k <= p THEN NaN ELSE Num(f[k])]) :
             f \in [1..n -> AtrVals]}

\* faulty variant of ParamsInvalid: the multiplier is not checked
ParamsInvalidNoMultiplier(p, m, l) == p <= 0 \/ l <= 0

\* line 30
ParamsInvalid(p, m, l) == p <= 0 \/ l <= 0 \/ m <= 0

\* lines 47-48: the closes the window slice selects at bar j (0-based)
WindowCloses(d, j, l) == ILocSlice(CloseCol(d), j - l, j + 1)

VsStart ==
    /\ vs_pc = "validate"
    /\ input_kind \in {"frame", "notframe", "nocols"}
    /\ \E n \in 0..MaxLen :
          /\ df \in SeriesOfLen(n)
          /\ input_kind # "frame" => n = 0
    /\ df_cols = {}
    /\ atr_period \in (-1)..MaxPeriod
    /\ multiplier \in MultiplierVals
    /\ lookback_period \in 0..(MaxPeriod + ExtraLookback)
    /\ atr = NotComputed
    /\ fHigh = 0
    /\ fLow = 0
    /\ vstop = <<>>
    /\ i = 0
    /\ high_period = NaN
    /\ low_period = NaN
    /\ vs_outcome = "running"
    /\ vs_ret = None

VsRaise(exc) ==
    /\ vs_pc' = "done"
    /\ vs_outcome' = exc

\* lines 27-34: the three argument checks
Validate ==
    /\ vs_pc = "validate"
    /\ IF input_kind = "notframe"
          \/ ParamsInvalid(atr_period, multiplier, lookback_period)
          \/ input_kind = "nocols"
       THEN VsRaise("ValueError")
       ELSE vs_pc' = "atr" /\ UNCHANGED vs_outcome
    /\ UNCHANGED <<input_kind, df, df_cols, atr_period, multiplier,
                   lookback_period, atr, fHigh, fLow, vstop, i,
                   high_period, low_period, vs_ret>>
    /\ UNCHANGED <<rsVars, cpVars, gaVars>>

\* lines 36-41: the ATR call, the counters, the empty stop series
ComputeAtr ==
    /\ vs_pc = "atr"
    /\ atr' \in AtrResults(Len(df), atr_period)
    /\ df_cols' = IF atr' = NoneSeries THEN df_cols ELSE df_cols \cup {"ATRr"}
    /\ fHigh' = 0
    /\ fLow' = 0
    /\ vstop' = [k \in 1..Len(df) |-> NaN]
    /\ i' = 0
    /\ vs_pc' = "loop"
    /\ UNCHANGED <<input_kind, df, atr_period, multiplier, lookback_period,
                   high_period, low_period, vs_outcome, vs_ret>>
    /\ UNCHANGED <<rsVars, cpVars, gaVars>>

\* line 45: one warm-up bar
WarmUpBar ==
    /\ vs_pc = "loop"
    /\ i < Len(df)
    /\ i < atr_period
    /\ IF atr = NoneSeries
       THEN /\ VsRaise("AttributeError")
            /\ UNCHANGED <<vstop, i>>
       ELSE /\ vstop' = [vstop EXCEPT ![i + 1] =
                           Add(Num(df[i + 1].Close),
                               Mul(Num(multiplier), atr.s[i + 1]))]
            /\ i' = i + 1
            /\ UNCHANGED <<vs_pc, vs_outcome>>
    /\ UNCHANGED <<input_kind, df, df_cols, atr_period, multiplier,
                   lookback_period, atr, fHigh, fLow, high_period,
                   low_period, vs_ret>>
    /\ UNCHANGED <<rsVars, cpVars, gaVars>>

\* lines 50, 55-56, 62-63: the branch a steady bar takes
TakesLong(d, vs, j) == Gt(Num(d[j].High), vs[j])

\* faulty variant of LongStop: the ratchet starts one bar late
LongStopLateRatchet(prev, hp, m, a, fh) ==
    IF fh < 2 THEN Sub(hp, Mul(Num(m), a))
    ELSE PyMax(prev, Sub(hp, Mul(Num(m), a)))

\* lines 51-54: the stop of a long bar
LongStop(prev, hp, m, a, fh) ==
    IF fh < 1 THEN Sub(hp, Mul(Num(m), a))
    ELSE PyMax(prev, Sub(hp, Mul(Num(m), a)))

\* lines 58-61: the stop of a short bar
ShortStop(prev, lp, m, a, fl) ==
    IF fl < 1 THEN Add(lp, Mul(Num(m), a))
    ELSE PyMin(prev, Add(lp, Mul(Num(m), a)))

\* lines 47-63: one steady-state bar
SteadyBar ==
    /\ vs_pc = "loop"
    /\ i < Len(df)
    /\ i >= atr_period
    /\ LET hp == SeriesMax(WindowCloses(df, i, lookback_period))
           lp == SeriesMin(WindowCloses(df, i, lookback_period))
       IN  /\ high_period' = hp
           /\ low_period' = lp
           /\ IF TakesLong(df, vstop, i)
              THEN /\ vstop' = [vstop EXCEPT ![i + 1] =
                          LongStop(vstop[i], hp, multiplier, atr.s[i + 1], fHigh)]
                   /\ fHigh' = fHigh + 1
                   /\ fLow' = 0
              ELSE /\ vstop' = [vstop EXCEPT ![i + 1] =
                          ShortStop(vstop[i], lp, multiplier, atr.s[i + 1], fLow)]
                   /\ fLow' = fLow + 1
                   /\ fHigh' = 0
    /\ i' = i + 1
    /\ UNCHANGED <<vs_pc, input_kind, df, df_cols, atr_period, multiplier,
                   lookback_period, atr, vs_outcome, vs_ret>>
    /\ UNCHANGED <<rsVars, cpVars, gaVars>>

\* lines 65-67: store the column and return its last value
ReturnLast ==
    /\ vs_pc = "loop"
    /\ i >= Len(df)
    /\ df_cols' = df_cols \cup {"VStop"}
    /\ vs_pc' = "done"
    /\ IF Len(df) = 0
       THEN vs_outcome' = "IndexError" /\ UNCHANGED vs_ret
       ELSE vs_outcome' = "returned" /\ vs_ret' = vstop[Len(df)]
    /\ UNCHANGED <<input_kind, df, atr_period, multiplier, lookback_period,
                   atr, fHigh, fLow, vstop, i, high_period, low_period>>
    /\ UNCHANGED <<rsVars, cpVars, gaVars>>

VsNext == Validate \/ ComputeAtr \/ WarmUpBar \/ SteadyBar \/ ReturnLast

\* calculate_vstop is not running
VsIdle ==
    /\ vs_pc = "idle"
    /\ input_kind = "frame"
    /\ df = <<>>
    /\ df_cols = {}
    /\ atr_period = DefaultAtrPeriod
    /\ multiplier = DefaultMultiplier
    /\ lookback_period = DefaultLookback
    /\ atr = NotComputed
    /\ fHigh = 0
    /\ fLow = 0
    /\ vstop = <<>>
    /\ i = 0
    /\ high_period = NaN
    /\ low_period = NaN
    /\ vs_outcome = "running"
    /\ vs_ret = None

-----------------------------------------------------------------------------
(* calculate_relative_strength *)

(* A float quotient of non-negative integers is kept exactly as a reduced  *)
(* fraction <<n, d>>; <<1, 0>> is +inf and <<0, 0>> is NaN, which is what   *)
(* numpy division gives for x/0 and 0/0.                                    *)
RECURSIVE Gcd(_, _)
Gcd(a, b) == IF b = 0 THEN a ELSE Gcd(b, a % b)

Reduce(n, d) ==
    LET g == Gcd(n, d)
    IN  IF g = 0 THEN <<0, 0>> ELSE <<n \div g, d \div g>>

FracNaN == <<0, 0>>
FracInf == <<1, 0>>
NoRatio == <<-1, -1>>

\* x / y for fractions x, y (numpy float division, no exception)
FracDiv(x, y) == Reduce(x[1] * y[2], x[2] * y[1])

\* strictly increasing timestamps with a close each
TimedSeries ==
    UNION {{[k \in 1..Cardinality(T) |->
                [t |-> SetMin({u \in T : Cardinality({w \in T : w <= u}) = k}),
                 Close |-> c[k]]] :
               c \in [1..Cardinality(T) -> RsCloseVals]} :
           T \in SUBSET (1..MaxTs)}

Labels(s) == {s[k].t : k \in 1..Len(s)}
At(s, u) == s[CHOOSE k \in 1..Len(s) : s[k].t = u]

\* lines 75, 76: data['Close'] / data['Close'].iloc[0], label kept
Normalized(data) ==
    [k \in 1..Len(data) |->
        [t |-> data[k].t, x |-> Reduce(data[k].Close, data[1].Close)]]

\* faulty variant of AlignedRatioLast: the last entries paired by position
PositionalRatioLast(sn, inn) == FracDiv(sn[Len(sn)].x, inn[Len(inn)].x)

\* line 79: Series / Series aligns the operands on their index labels: the
\* result is indexed by the sorted union of the labels and is NaN at a label
\* that one operand lacks.  Line 80 takes its last entry.
AlignedRatioLast(sn, inn) ==
    LET last == SetMax(Labels(sn) \cup Labels(inn))
    IN  IF last \in Labels(sn) /\ last \in Labels(inn)
        THEN FracDiv(At(sn, last).x, At(inn, last).x)
        ELSE FracNaN

RsStart ==
    /\ rs_pc = "stock"
    /\ stock_data \in TimedSeries
    /\ index_data \in TimedSeries
    /\ stock_normalized = <<>>
    /\ index_normalized = <<>>
    /\ rs_outcome = "running"
    /\ rs_ret = NoRatio

RsIdle ==
    /\ rs_pc = "idle"
    /\ stock_data = <<>>
    /\ index_data = <<>>
    /\ stock_normalized = <<>>
    /\ index_normalized = <<>>
    /\ rs_outcome = "running"
    /\ rs_ret = NoRatio

\* line 75
NormalizeStock ==
    /\ rs_pc = "stock"
    /\ IF Len(stock_data) = 0
       THEN /\ rs_pc' = "done"
            /\ rs_outcome' = "IndexError"
            /\ UNCHANGED stock_normalized
       ELSE /\ rs_pc' = "index"
            /\ stock_normalized' = Normalized(stock_data)
            /\ UNCHANGED rs_outcome
    /\ UNCHANGED <<stock_data, index_data, index_normalized, rs_ret>>
    /\ UNCHANGED <<vsVars, cpVars, gaVars>>

\* line 76
NormalizeIndex ==
    /\ rs_pc = "index"
    /\ IF Len(index_data) = 0
       THEN /\ rs_pc' = "done"
            /\ rs_outcome' = "IndexError"
            /\ UNCHANGED index_normalized
       ELSE /\ rs_pc' = "ratio"
            /\ index_normalized' = Normalized(index_data)
            /\ UNCHANGED rs_outcome
    /\ UNCHANGED <<stock_data, index_data, stock_normalized, rs_ret>>
    /\ UNCHANGED <<vsVars, cpVars, gaVars>>

\* lines 79-80
RatioLast ==
    /\ rs_pc = "ratio"
    /\ rs_ret' = AlignedRatioLast(stock_normalized, index_normalized)
    /\ rs_outcome' = "returned"
    /\ rs_pc' = "done"
    /\ UNCHANGED <<stock_data, index_data, stock_normalized, index_normalized>>
    /\ UNCHANGED <<vsVars, cpVars, gaVars>>

RsNext == NormalizeStock \/ NormalizeIndex \/ RatioLast

-----------------------------------------------------------------------------
(* get_chart_pattern *)

HighCol(d) == [k \in 1..Len(d) |-> d[k].High]

\* A long daily series: flat bars at 1, one earlier peak bar at position q,
\* and a last bar drawn freely.
LongSeries(n, q, peak, lastBar) ==
    [k \in 1..n |->
        IF k = n THEN lastBar
        ELSE IF k = q THEN [High |-> peak, Close |-> peak]
        ELSE [High |-> 1, Close |-> 1]]

DailyBars == {[High |-> c + g, Close |-> c] : c \in {1, 2, 3}, g \in HighGaps}

\* daily series: every short one, and long ones around the window length
\* with the peak at either end of the series and on both sides of the
\* window's first bar
DailySeries ==
    (UNION {[1..n -> DailyBars] : n \in 0..MaxDailyLen})
    \cup UNION {{LongSeries(n, q, peak, b) :
                     q \in {1, 2, n - YearBars, n - YearBars + 1, n - 1},
                     peak \in {2, 3},
                     b \in DailyBars} :
                 n \in (YearBars - 1)..(YearBars + ExtraBars)}

\* faulty variant of PatternLabel: a strict comparison
PatternLabelStrict(price, high) ==
    IF Gt(price, high) THEN "New 52-Week High Breakout" ELSE "No clear pattern"

\* lines 92-96: the label
PatternLabel(price, high) ==
    IF Ge(price, high) THEN "New 52-Week High Breakout" ELSE "No clear pattern"

CpStart ==
    /\ cp_pc = "read"
    /\ daily_data \in DailySeries
    /\ last_price = NaN
    /\ high_52_week = NaN
    /\ cp_outcome = "running"
    /\ chart_pattern = "none"

CpIdle ==
    /\ cp_pc = "idle"
    /\ daily_data = <<>>
    /\ last_price = NaN
    /\ high_52_week = NaN
    /\ cp_outcome = "running"
    /\ chart_pattern = "none"

\* lines 89-90: the last close and the maximum High of the last 252 bars
ReadWindow ==
    /\ cp_pc = "read"
    /\ IF Len(daily_data) = 0
       THEN /\ cp_pc' = "done"
            /\ cp_outcome' = "IndexError"
            /\ UNCHANGED <<last_price, high_52_week>>
       ELSE /\ cp_pc' = "label"
            /\ last_price' = Num(daily_data[Len(daily_data)].Close)
            /\ high_52_week' =
                  SeriesMax(ILocSlice(HighCol(daily_data), -YearBars,
                                      Len(daily_data)))
            /\ UNCHANGED cp_outcome
    /\ UNCHANGED <<daily_data, chart_pattern>>
    /\ UNCHANGED <<vsVars, rsVars, gaVars>>

\* lines 92-96
ReturnLabel ==
    /\ cp_pc = "label"
    /\ chart_pattern' = PatternLabel(last_price, high_52_week)
    /\ cp_outcome' = "returned"
    /\ cp_pc' = "done"
    /\ UNCHANGED <<daily_data, last_price, high_52_week>>
    /\ UNCHANGED <<vsVars, rsVars, gaVars>>

CpNext == ReadWindow \/ ReturnLabel

-----------------------------------------------------------------------------
(* get_stock_analysis *)

Absent == [k |-> "absent", v |-> 0]

\* the close of the latest bar, and indicator values below, at and above it
PriceVals == {2}
AroundPrice == {Num(1), Num(2), Num(3)}

\* lengths of the fetched series: empty, shorter than the ATR period, exactly
\* the ATR period, long
StockLens == {0, DefaultAtrPeriod - 4, DefaultAtrPeriod, 300}

\* The last row of stock_data after lines 137-150.  An indicator call that
\* lacks history appends no column (Absent) or leaves NaN in the last row.
LatestRows ==
    [Close : {Num(c) : c \in PriceVals},
     EMA_50 : {Absent, NaN} \cup AroundPrice,
     SMA_50 : {Absent} \cup AroundPrice,
     EMA_200 : {Absent} \cup AroundPrice,
     SMA_200 : {Absent} \cup AroundPrice,
     RSI_14 : {Absent, Num(RsiSellBelow - 1), Num(RsiSellBelow),
               Num(RsiBuyAbove), Num(RsiBuyAbove + 1)},
     ADX_14 : {Absent, Num(AdxBuyAbove), Num(AdxBuyAbove + 1)},
     PSARl : {Absent, NaN, Num(1), Num(2)},
     PSARs : {Absent, NaN, Num(3)}]

\* Series.get(key, default)
Get(row, key, default) == IF row[key] = Absent THEN default ELSE row[key]

\* pd.isna
IsNa(x) == x.k \in {"nan", "none"}

\* line 172
ResolvePsar(psar_long, psar_short) ==
    IF ~IsNa(psar_long) THEN psar_long ELSE psar_short

\* What calculate_vstop(stock_data) gives with its default arguments on n
\* bars: it raises or returns NaN when n < atr_period (the ATR call gives
\* None or an all-NaN series), returns NaN when n = atr_period (warm-up
\* only), and a number afterwards.
VStopOutcomes(n) ==
    IF n < DefaultAtrPeriod THEN {[raised |-> TRUE, val |-> None],
                                  [raised |-> FALSE, val |-> NaN]}
    ELSE IF n = DefaultAtrPeriod THEN {[raised |-> FALSE, val |-> NaN]}
    ELSE {[raised |-> FALSE, val |-> x] : x \in AroundPrice}

\* A comparison of two Python values: "T", "F", or "E" when the operands
\* cannot be ordered (float against None raises TypeError)
CmpGt(a, b) ==
    IF a.k = "none" \/ b.k = "none" THEN "E" ELSE IF Gt(a, b) THEN "T" ELSE "F"
CmpLt(a, b) ==
    IF a.k = "none" \/ b.k = "none" THEN "E" ELSE IF Lt(a, b) THEN "T" ELSE "F"

\* `c1 and c2 and ...`: the operands are evaluated left to right up to the
\* first that is not true
RECURSIVE AndChain(_)
AndChain(cs) ==
    IF cs = <<>> THEN "T"
    ELSE IF Head(cs) = "T" THEN AndChain(Tail(cs))
    ELSE Head(cs)

\* lines 182-185
StrongUptrend(price, e50, s50, e200, s200) ==
    AndChain(<<CmpGt(price, e50), CmpGt(price, s50),
               CmpGt(price, e200), CmpGt(price, s200)>>)

\* faulty variant of BuySignal: RSI at the threshold counts
BuySignalRsiAtLeast(uptrend, price, r, a, vs, ps) ==
    AndChain(<<uptrend, CmpGt(r, Num(RsiBuyAbove - 1)),
               CmpGt(a, Num(AdxBuyAbove)), CmpGt(price, vs), CmpGt(price, ps)>>)

\* lines 187-193
BuySignal(uptrend, price, r, a, vs, ps) ==
    AndChain(<<uptrend, CmpGt(r, Num(RsiBuyAbove)), CmpGt(a, Num(AdxBuyAbove)),
               CmpGt(price, vs), CmpGt(price, ps)>>)

\* faulty variant of SellSignal: RSI at the threshold counts
SellSignalRsiAtMost(price, e50, r, vs, ps) ==
    AndChain(<<CmpLt(price, e50), CmpLt(price, vs), CmpLt(price, ps),
               CmpLt(r, Num(RsiSellBelow + 1))>>)

\* lines 195-200
SellSignal(price, e50, r, vs, ps) ==
    AndChain(<<CmpLt(price, e50), CmpLt(price, vs), CmpLt(price, ps),
               CmpLt(r, Num(RsiSellBelow))>>)

\* lines 202-210
Recommend(buy, sell) ==
    IF buy = "T" THEN "Buy" ELSE IF sell = "T" THEN "Sell" ELSE "Hold"

GaStart ==
    /\ ga_pc = "fetch"
    /\ stock_len = 0
    /\ latest_data = [f \in {"Close", "EMA_50", "SMA_50", "EMA_200", "SMA_200",
                             "RSI_14", "ADX_14", "PSARl", "PSARs"} |-> Absent]
    /\ current_price = None
    /\ ema50 = None
    /\ sma50 = None
    /\ ema200 = None
    /\ sma200 = None
    /\ rsi = None
    /\ adx = None
    /\ psar = None
    /\ ga_vstop = None
    /\ ga_fault = "none"
    /\ recommendation = "none"
    /\ ga_result = "none"
    /\ ga_keys = {}

\* lines 213-228: the keys of the analysis record
AnalysisKeys ==
    {"currentPrice", "high52w", "low52w", "ema21", "ema50", "ema100", "ema200",
     "sma21", "sma50", "sma100", "sma200", "rsi", "adx", "psar",
     "donchianUpper", "vstop", "relativeStrength", "chartPattern",
     "recommendation", "reason"}

\* faulty variant of GaError: no try/except, the exception leaves the function
GaErrorPropagates(step) ==
    /\ ga_pc' = "done"
    /\ ga_fault' = step
    /\ ga_result' = "raised"
    /\ ga_keys' = {}

\* lines 106, 230-232: an exception raised at `step` inside the try block
\* reaches the except clause, which returns the error record
GaError(step) ==
    /\ ga_pc' = "done"
    /\ ga_fault' = step
    /\ ga_result' = "error"
    /\ ga_keys' = {"error"}

\* lines 118-128: the fetches and the empty check
Fetch ==
    /\ ga_pc = "fetch"
    /\ \E raised \in BOOLEAN, n \in StockLens :
          IF raised
          THEN GaError("fetch") /\ UNCHANGED stock_len
          ELSE /\ stock_len' = n
               /\ IF n = 0
                  THEN /\ ga_pc' = "done"
                       /\ ga_result' = "error"
                       /\ ga_keys' = {"error"}
                  ELSE /\ ga_pc' = "indicators"
                       /\ UNCHANGED <<ga_result, ga_keys>>
               /\ UNCHANGED ga_fault
    /\ UNCHANGED <<latest_data, current_price, ema50, sma50, ema200, sma200,
                   rsi, adx, psar, ga_vstop, recommendation>>
    /\ UNCHANGED <<vsVars, rsVars, cpVars>>

\* lines 131-174: the indicator calls, which may raise, and the latest values
LatestValues ==
    /\ ga_pc = "indicators"
    /\ \/ /\ GaError("indicators")
          /\ UNCHANGED <<latest_data, current_price, ema50, sma50, ema200,
                         sma200, rsi, adx, psar>>
       \/ /\ \E row \in LatestRows :
                /\ latest_data' = row
                /\ current_price' = row.Close
                /\ ema50' = Get(row, "EMA_50", Num(0))
                /\ sma50' = Get(row, "SMA_50", Num(0))
                /\ ema200' = Get(row, "EMA_200", Num(0))
                /\ sma200' = Get(row, "SMA_200", Num(0))
                /\ rsi' = Get(row, "RSI_14", Num(0))
                /\ adx' = Get(row, "ADX_14", Num(0))
                /\ psar' = ResolvePsar(Get(row, "PSARl", None),
                                       Get(row, "PSARs", None))
          /\ ga_pc' = "custom"
          /\ UNCHANGED <<ga_fault, ga_result, ga_keys>>
    /\ UNCHANGED <<stock_len, ga_vstop, recommendation>>
    /\ UNCHANGED <<vsVars, rsVars, cpVars>>

\* lines 177-179: calculate_vstop, then calculate_relative_strength (raises
\* on an empty benchmark series), then get_chart_pattern (raises on an empty
\* daily series)
CustomIndicators ==
    /\ ga_pc = "custom"
    /\ \E out \in VStopOutcomes(stock_len), nifty_empty, daily_empty \in BOOLEAN :
          IF out.raised
          THEN GaError("vstop") /\ UNCHANGED ga_vstop
          ELSE /\ ga_vstop' = out.val
               /\ IF nifty_empty THEN GaError("rs")
                  ELSE IF daily_empty THEN GaError("pattern")
                  ELSE /\ ga_pc' = "rules"
                       /\ UNCHANGED <<ga_fault, ga_result, ga_keys>>
    /\ UNCHANGED <<stock_len, latest_data, current_price, ema50, sma50, ema200,
                   sma200, rsi, adx, psar, recommendation>>
    /\ UNCHANGED <<vsVars, rsVars, cpVars>>

\* lines 182-228: the rules and the returned record
ApplyRules ==
    /\ ga_pc = "rules"
    /\ LET is_strong_uptrend ==
               StrongUptrend(current_price, ema50, sma50, ema200, sma200)
           is_buy_signal ==
               BuySignal(is_strong_uptrend, current_price, rsi, adx, ga_vstop, psar)
           is_sell_signal ==
               SellSignal(current_price, ema50, rsi, ga_vstop, psar)
       IN  IF is_buy_signal = "E" \/ is_sell_signal = "E"
           THEN GaError("rules") /\ UNCHANGED recommendation
           ELSE /\ recommendation' = Recommend(is_buy_signal, is_sell_signal)
                /\ ga_result' = "analysis"
                /\ ga_keys' = AnalysisKeys
                /\ ga_pc' = "done"
                /\ UNCHANGED ga_fault
    /\ UNCHANGED <<stock_len, latest_data, current_price, ema50, sma50, ema200,
                   sma200, rsi, adx, psar, ga_vstop>>
    /\ UNCHANGED <<vsVars, rsVars, cpVars>>

GaIdle ==
    /\ ga_pc = "idle"
    /\ stock_len = 0
    /\ latest_data = [f \in {"Close", "EMA_50", "SMA_50", "EMA_200", "SMA_200",
                             "RSI_14", "ADX_14", "PSARl", "PSARs"} |-> Absent]
    /\ current_price = None
    /\ ema50 = None
    /\ sma50 = None
    /\ ema200 = None
    /\ sma200 = None
    /\ rsi = None
    /\ adx = None
    /\ psar = None
    /\ ga_vstop = None
    /\ ga_fault = "none"
    /\ recommendation = "none"
    /\ ga_result = "none"
    /\ ga_keys = {}

GaNext == Fetch \/ LatestValues \/ CustomIndicators \/ ApplyRules

-----------------------------------------------------------------------------
(* Specifications *)

\* one call of calculate_vstop
VsInit == VsStart /\ RsIdle /\ CpIdle /\ GaIdle
SpecVStop == VsInit /\ [][VsNext]_vars

\* one call of calculate_relative_strength
RsInit == RsStart /\ VsIdle /\ CpIdle /\ GaIdle
SpecRS == RsInit /\ [][RsNext]_vars

\* one call of get_chart_pattern
CpInit == CpStart /\ VsIdle /\ RsIdle /\ GaIdle
SpecPattern == CpInit /\ [][CpNext]_vars

\* one call of get_stock_analysis
Init == GaStart /\ VsIdle /\ RsIdle /\ CpIdle
Next == GaNext
Spec == Init /\ [][Next]_vars

-----------------------------------------------------------------------------
(* Claims about calculate_vstop (checked under SpecVStop) *)

\* 0-based accessors, as the code indexes
HighAt(j) == Num(df[j + 1].High)
StopAt(j) == vstop[j + 1]

\* the loop has been entered with an ATR series
VsLooping == vs_pc \in {"loop", "done"} /\ atr.kind = "series"

\* C1: for consecutive steady-state bars j-1, j (both >= atr_period) that both
\* took the long branch, stop[j] >= stop[j-1]; for consecutive steady-state
\* bars that both took the short branch, stop[j] <= stop[j-1].
C1_RunMonotone ==
    VsLooping =>
        \A j \in 0..(Len(df) - 1) :
            (j < i /\ j - 1 >= atr_period) =>
                LET longPrev == Gt(HighAt(j - 2), StopAt(j - 2))
                    longCur == Gt(HighAt(j - 1), StopAt(j - 1))
                IN  /\ (longPrev /\ longCur) => Ge(StopAt(j), StopAt(j - 1))
                    /\ (~longPrev /\ ~longCur) => Le(StopAt(j), StopAt(j - 1))

\* the branch steady-state bar j took: TRUE for long (line 50)
BranchAt(j) == Gt(HighAt(j - 1), StopAt(j - 1))

\* steady-state bar j opens a run: it is the first steady-state bar or its
\* branch differs from the branch of bar j-1
OpensRun(j) == j = atr_period \/ BranchAt(j) # BranchAt(j - 1)

\* the number of consecutive steady-state bars ending at bar j that took the
\* branch of bar j
RECURSIVE RunLength(_)
RunLength(j) == IF OpensRun(j) THEN 1 ELSE 1 + RunLength(j - 1)

\* the un-ratcheted stop of steady-state bar j (lines 52 and 59)
FirstBarStop(j) ==
    LET closes == WindowCloses(df, j, lookback_period)
        band == Mul(Num(multiplier), atr.s[j + 1])
    IN  IF BranchAt(j) THEN Sub(SeriesMax(closes), band)
        ELSE Add(SeriesMin(closes), band)

\* the ratcheted stop of steady-state bar j (lines 54 and 61)
RatchetedStop(j) ==
    IF BranchAt(j) THEN PyMax(StopAt(j - 1), FirstBarStop(j))
    ELSE PyMin(StopAt(j - 1), FirstBarStop(j))

\* C12: fHigh and fLow are both 0 throughout warm-up; after any steady-state
\* bar exactly one of them is positive and the other is 0, and the positive
\* one is the number of consecutive steady-state bars, ending at the current
\* bar, that took the same branch (fHigh for long, fLow for short); so the
\* un-ratcheted first-bar formula gives the stop of the first steady-state bar
\* and of each bar whose branch differs from the previous bar's, and the
\* ratcheted formula gives the stop of every other steady-state bar.
C12_RunCounters ==
    VsLooping =>
        /\ i <= atr_period => (fHigh = 0 /\ fLow = 0)
        /\ i > atr_period =>
              IF BranchAt(i - 1)
              THEN fHigh = RunLength(i - 1) /\ fHigh > 0 /\ fLow = 0
              ELSE fLow = RunLength(i - 1) /\ fLow > 0 /\ fHigh = 0
        /\ \A j \in 0..(Len(df) - 1) :
              (j < i /\ j >= atr_period) =>
                  StopAt(j) = IF OpensRun(j) THEN FirstBarStop(j)
                              ELSE RatchetedStop(j)

\* C12 witness: the second bar of a long run, fHigh counting 2, whose stop was
\* held by the ratchet above the un-ratcheted value
C12_Witness ==
    /\ VsLooping
    /\ i > atr_period + 1
    /\ BranchAt(i - 1) /\ BranchAt(i - 2)
    /\ fHigh = 2 /\ fLow = 0
    /\ Gt(StopAt(i - 1), FirstBarStop(i - 1))

\* C4: called on a series of length N <= atr_period (valid arguments
\* otherwise), calculate_vstop fails with InsufficientDataError and returns
\* no stop value: it never returns a warm-up stop value.  The code raises no
\* InsufficientDataError anywhere, so any raised exception is taken here as
\* that failure and the formula is refuted only by a returned value.
C4_InsufficientData ==
    (/\ vs_pc = "done"
     /\ input_kind = "frame"
     /\ atr_period > 0 /\ multiplier > 0 /\ lookback_period > 0
     /\ Len(df) <= atr_period)
    => (vs_outcome # "returned" /\ vs_ret = None)

\* C5: with atr_period, multiplier or lookback_period <= 0 the call fails
\* with the validation error (ValueError) before any ATR or stop value is
\* computed, and df gets no VStop column.
C5_ParamsRejected ==
    (atr_period <= 0 \/ multiplier <= 0 \/ lookback_period <= 0) =>
        /\ vs_pc \in {"validate", "done"}
        /\ vs_pc = "done" => vs_outcome = "ValueError"
        /\ atr = NotComputed
        /\ vstop = <<>>
        /\ df_cols = {}
        /\ vs_ret = None

\* C5 witness: a frame with bars, multiplier = 0 alone invalid, rejected
C5_Witness ==
    /\ vs_pc = "done"
    /\ input_kind = "frame"
    /\ Len(df) > 0
    /\ multiplier = 0 /\ atr_period > 0 /\ lookback_period > 0
    /\ vs_outcome = "ValueError"

\* C10: after every steady-state bar j >= atr_period, for every
\* lookback_period > 0, high_period and low_period are the maximum and the
\* minimum of the closes at indices max(0, j - lookback_period) .. j, a window
\* that is never empty.
C10_WindowClipped ==
    (VsLooping /\ i - 1 >= atr_period) =>
        LET j == i - 1
            lo == IF j - lookback_period < 0 THEN 0 ELSE j - lookback_period
            win == {df[k + 1].Close : k \in lo..j}
        IN  /\ high_period = Num(SetMax(win))
            /\ low_period = Num(SetMin(win))

-----------------------------------------------------------------------------
(* Claims about calculate_relative_strength (checked under SpecRS) *)

\* r is the float value of x / y for integers x, y >= 0
RatioIs(r, x, y) ==
    IF y = 0 THEN (IF x = 0 THEN r = FracNaN ELSE r = FracInf)
    ELSE r[2] > 0 /\ r[1] * y = r[2] * x

\* C6: when either series is empty or the first close of either series is
\* zero, calculate_relative_strength fails with a ValidationError and returns
\* no ratio, numeric, infinite or undefined.  The code raises no
\* ValidationError anywhere, so any raised exception is taken here as that
\* failure and the formula is refuted only by a returned value.
C6_RejectsEmptyOrZero ==
    (/\ rs_pc = "done"
     /\ \/ Len(stock_data) = 0
        \/ Len(index_data) = 0
        \/ stock_data[1].Close = 0
        \/ index_data[1].Close = 0)
    => (rs_outcome # "returned" /\ rs_ret = NoRatio)

-----------------------------------------------------------------------------
(* Claims about get_chart_pattern (checked under SpecPattern) *)

\* the highest High of the last min(252, N) bars of the daily series
TrailingHigh ==
    LET n == Len(daily_data)
        w == IF n < 252 THEN n ELSE 252
    IN  SetMax({daily_data[k].High : k \in (n - w + 1)..n})

\* C8: on a non-empty daily series of N bars get_chart_pattern returns
\* "New 52-Week High Breakout" when the last close equals the maximum (the
\* highest High) of the trailing min(252, N) bars and "No clear pattern" when
\* it is strictly less; it returns no other label and does not fail when
\* N < 252.
C8_BreakoutLabel ==
    (cp_pc = "done" /\ Len(daily_data) >= 1) =>
        /\ cp_outcome = "returned"
        /\ chart_pattern \in {"New 52-Week High Breakout", "No clear pattern"}
        /\ daily_data[Len(daily_data)].Close = TrailingHigh
              => chart_pattern = "New 52-Week High Breakout"
        /\ daily_data[Len(daily_data)].Close < TrailingHigh
              => chart_pattern = "No clear pattern"

\* C8 witness: more than 252 bars, a higher peak just before the window,
\* the last close at the window's high: a breakout
C8_Witness ==
    /\ cp_pc = "done"
    /\ Len(daily_data) > 252
    /\ daily_data[Len(daily_data) - 252].High > daily_data[Len(daily_data)].Close
    /\ daily_data[Len(daily_data)].Close = TrailingHigh
    /\ chart_pattern = "New 52-Week High Breakout"

-----------------------------------------------------------------------------
(* Claims about get_stock_analysis (checked under Spec) *)

\* the Buy rule on the latest values, thresholds written out
BuyRule ==
    /\ Gt(current_price, ema50) /\ Gt(current_price, sma50)
    /\ Gt(current_price, ema200) /\ Gt(current_price, sma200)
    /\ Gt(rsi, Num(55)) /\ Gt(adx, Num(25))
    /\ Gt(current_price, ga_vstop) /\ Gt(current_price, psar)

\* the Sell rule on the latest values, threshold written out
SellRule ==
    /\ Lt(current_price, ema50) /\ Lt(current_price, ga_vstop)
    /\ Lt(current_price, psar) /\ Lt(rsi, Num(45))

\* C2: the recommendation of a returned analysis is "Buy" if and only if
\* close > EMA50, SMA50, EMA200, SMA200, VStop and PSAR, RSI14 > 55 and
\* ADX14 > 25, every comparison strict.
C2_BuyIff ==
    ga_result = "analysis" => (recommendation = "Buy" <=> BuyRule)

\* C2 witness: a Buy with RSI and ADX just above their thresholds
C2_Witness ==
    /\ ga_result = "analysis"
    /\ recommendation = "Buy"
    /\ rsi = Num(56)
    /\ adx = Num(26)

\* C3: the recommendation of a returned analysis is "Sell" if and only if
\* the Buy rule did not match and close < EMA50, VStop and PSAR and
\* RSI14 < 45; in every remaining case it is "Hold"; it is always one of
\* Buy, Sell, Hold.
C3_SellIffElseHold ==
    ga_result = "analysis" =>
        /\ recommendation \in {"Buy", "Sell", "Hold"}
        /\ recommendation = "Sell" <=> (~BuyRule /\ SellRule)
        /\ recommendation = "Hold" <=> (~BuyRule /\ ~SellRule)

\* C3 witness: a Sell with RSI just below its threshold
C3_Witness ==
    /\ ga_result = "analysis"
    /\ recommendation = "Sell"
    /\ rsi = Num(44)

\* an indicator read from the latest row is unavailable: its field is
\* missing or holds NaN (for PSAR: both of its fields)
FieldUnavailable(f) == latest_data[f] \in {Absent, NaN}
RowIndicatorUnavailable ==
    \/ \E f \in {"EMA_50", "SMA_50", "EMA_200", "SMA_200", "RSI_14", "ADX_14"} :
          FieldUnavailable(f)
    \/ (FieldUnavailable("PSARl") /\ FieldUnavailable("PSARs"))

\* C9: when an indicator consumed by the rules is unavailable, the analysis
\* still returns a record with a recommendation in {Buy, Sell, Hold} and never
\* an error result.  Stated for the indicators read from the latest row, on a
\* history long enough for VStop, and for calls in which no other step (fetch,
\* indicator call, relative strength, chart pattern) failed.
C9_UnavailableNeverFaults ==
    (/\ ga_pc = "done"
     /\ stock_len > DefaultAtrPeriod
     /\ ga_fault \notin {"fetch", "indicators", "rs", "pattern"}
     /\ RowIndicatorUnavailable)
    => (ga_result = "analysis" /\ recommendation \in {"Buy", "Sell", "Hold"})

\* C11: get_stock_analysis never lets an exception reach its caller: when the
\* instrument series is empty or any step (fetch, indicator computation,
\* VStop, relative strength, pattern detection, rule evaluation) fails, it
\* returns a record whose only key is "error"; otherwise it returns the full
\* analysis record, which has no "error" key.
C11_ErrorRecordOrFullAnalysis ==
    ga_pc = "done" =>
        /\ ga_result \in {"analysis", "error"}
        /\ IF stock_len = 0 \/ ga_fault # "none"
           THEN ga_result = "error" /\ ga_keys = {"error"}
           ELSE /\ ga_result = "analysis"
                /\ "error" \notin ga_keys
                /\ Cardinality(ga_keys) = 20
                /\ {"recommendation", "reason", "vstop", "relativeStrength",
                    "chartPattern", "currentPrice"} \subseteq ga_keys

\* C11 witness: with the history fetched and the indicators read, the rule
\* evaluation raised (PSAR resolved to None) and the error record came back
C11_Witness ==
    /\ ga_pc = "done"
    /\ stock_len > 0
    /\ psar = None
    /\ ga_fault = "rules"
    /\ ga_result = "error"
    /\ ga_keys = {"error"}

====
